---- MODULE Spec2Model ----
(***************************************************************************)
(* Model of ac-mon: the per-room monitor supervisor (src/main.rs), the     *)
(* Adobe Connect socket session and RPC interpreter (src/ac_coms.rs) and   *)
(* the shared room record DbEntry (src/lib.rs).                            *)
(***************************************************************************)
EXTENDS Integers, Sequences, FiniteSets, TLC

(***************************************************************************)
(* Bounds of the model.                                                    *)
(***************************************************************************)
\* number of classes in the configuration file; room i is the i-th entry
\* yielded by the iteration over the database in monitor()
NumRooms == 2
\* the wall clock runs over 0..MaxTime
MaxTime == 2

Rooms == 1..NumRooms

(***************************************************************************)
(* Status (lib.rs) and its JSON rendering.                                 *)
(***************************************************************************)
Status == {"Open", "Closed", "Blocked", "Pending"}

Status_json(s) ==
    CASE s = "Open" -> "open"
      [] s = "Closed" -> "closed"
      [] s = "Blocked" -> "blocked"
      [] s = "Pending" -> "pending"

(***************************************************************************)
(* DbEntry (lib.rs): the class is static, the status and the time are each *)
(* behind their own RwLock.                                                *)
(***************************************************************************)
\* impl From<Class> for DbEntry: Pending, stamped with the time of creation
DbEntry_from(t) == [status |-> "Pending", last_changed |-> t]

\* set_status that stores nothing
set_status_dropped(entry, new_status, t) == entry

\* DbEntry::set_status: takes the write lock of the status and stores the
\* new status; the lock of the time is never taken
set_status(entry, new_status, t) == [entry EXCEPT !.status = new_status]

\* DbEntry::json, the fields that are not static
DbEntry_json(entry) ==
    [status |-> Status_json(entry.status), last_changed |-> entry.last_changed]

(***************************************************************************)
(* Inbound text messages.  A message is described by what json::parse and  *)
(* the field lookups of Rpc::new see in it.                                *)
(***************************************************************************)
Absent == "<absent>"
NonObject == "<non-object>"
NonString == "<non-string>"
Object == "<object>"

\* the signals carried at params.arg_0.command
Signals == {"accepted", "blocked", "connectionTimedOut", "heartbeat", "garbage"}

Msg(text, method, command, params, arg_0, name) ==
    [text |-> text, method |-> method, command |-> command,
     params |-> params, arg_0 |-> arg_0, name |-> name]

LoginHandler(name) ==
    Msg(Object, "onCommand", "loginHandler", Object, Object, name)

Messages ==
    { Msg("", Absent, Absent, Absent, Absent, Absent),
      Msg("<unparsable>", Absent, Absent, Absent, Absent, Absent),
      Msg(NonObject, Absent, Absent, Absent, Absent, Absent),
      Msg(Object, Absent, Absent, Absent, Absent, Absent),
      Msg(Object, NonString, "loginHandler", Object, Object, "accepted"),
      Msg(Object, "other", "loginHandler", Object, Object, "accepted"),
      Msg(Object, "heartbeat", Absent, Absent, Absent, Absent),
      Msg(Object, "heartbeat", "other", NonObject, Absent, Absent),
      Msg(Object, "onCommand", Absent, Object, Object, "accepted"),
      Msg(Object, "onCommand", "other", Absent, Absent, Absent),
      Msg(Object, "onCommand", "loginHandler", Absent, Absent, Absent),
      Msg(Object, "onCommand", "loginHandler", NonObject, Absent, Absent),
      Msg(Object, "onCommand", "loginHandler", Object, Absent, Absent),
      Msg(Object, "onCommand", "loginHandler", Object, NonObject, Absent),
      LoginHandler(Absent),
      LoginHandler(NonString) }
    \cup { LoginHandler(s) : s \in Signals }

(***************************************************************************)
(* Rpc (ac_coms.rs).  An Rpc is the string it wraps.                       *)
(***************************************************************************)
Ok(v) == [tag |-> "ok", val |-> v]
Err(e) == [tag |-> "err", val |-> e]
Panic == [tag |-> "panic", val |-> "panic"]

\* Rpc::new
Rpc_new(m) ==
    IF m.text = "" THEN Err("Empty")
    ELSE IF m.text # Object THEN Err("InvalidJson")
    ELSE IF m.method = Absent THEN Err("UnknownMethod")
    ELSE IF m.method = "heartbeat" THEN Ok("heartbeat")
    ELSE IF m.method # "onCommand" THEN Err("UnknownMethod")
    ELSE IF m.command = Absent THEN Err("UnknownCommand")
    ELSE IF m.command # "loginHandler" THEN Err("UnknownCommand")
    ELSE IF m.params = Absent THEN Err("MissingParams")
    ELSE IF m.params # Object THEN Err("InvalidJson")
    ELSE IF m.arg_0 = Absent THEN Err("MissingParams")
    ELSE IF m.arg_0 # Object THEN Err("InvalidJson")
    ELSE IF m.name = Absent THEN Err("MissingName")
    ELSE IF m.name = NonString THEN Panic
    ELSE Ok(m.name)

\* is_heartbeat that never holds
is_heartbeat_never(rpc) == FALSE

is_heartbeat(rpc) == rpc = "heartbeat"

\* is_timeout looking for another name
is_timeout_other_name(rpc) == rpc = "timeout"

is_timeout(rpc) == rpc = "connectionTimedOut"

\* update with Blocked handled like Closed
update_blocked_not_kept(rpc, status) ==
    CASE status \in {"Closed", "Pending", "Blocked"} ->
            ( CASE rpc = "accepted" -> "Open"
                [] rpc = "blocked" -> "Blocked"
                [] OTHER -> "Closed" )
      [] status = "Open" -> "Open"

\* update that keeps the status on an unknown command
update_unknown_keeps(rpc, status) ==
    CASE status \in {"Closed", "Pending"} ->
            ( CASE rpc = "accepted" -> "Open"
                [] rpc = "blocked" -> "Blocked"
                [] OTHER -> status )
      [] status = "Open" -> "Open"
      [] status = "Blocked" -> "Blocked"

\* Rpc::update
update(rpc, status) ==
    CASE status \in {"Closed", "Pending"} ->
            ( CASE rpc = "accepted" -> "Open"
                [] rpc = "blocked" -> "Blocked"
                [] OTHER -> "Closed" )
      [] status = "Open" -> "Open"
      [] status = "Blocked" -> "Blocked"


(***************************************************************************)
(* RoomParams::from_canvas_slug (ac_coms.rs).  A page is described by      *)
(* whether it could be fetched and which of the three patterns match.      *)
(***************************************************************************)
Page(fetched, ticket, origin, app) ==
    [fetched |-> fetched, ticket |-> ticket, origin |-> origin, app |-> app]

Pages ==
    { Page(TRUE, TRUE, TRUE, TRUE),
      Page(FALSE, FALSE, FALSE, FALSE),
      Page(TRUE, FALSE, TRUE, TRUE),
      Page(TRUE, TRUE, FALSE, TRUE),
      Page(TRUE, TRUE, TRUE, FALSE) }

from_canvas_slug(page) ==
    IF ~page.fetched THEN Err("reqwest")
    ELSE IF ~page.ticket THEN Err("TicketExtractionFail")
    ELSE IF ~page.origin THEN Err("OriginExtractionFail")
    ELSE IF ~page.app THEN Err("AppExtractionFail")
    ELSE Ok("RoomParams")

\* what monitor tells apart in the result of from_canvas_slug
ScrapeOutcomes == { from_canvas_slug(page).tag : page \in Pages }

(***************************************************************************)
(* AcSocket::new (ac_coms.rs).  A handshake is described by the outcome of *)
(* each transport operation and by what the parsed response holds.         *)
(***************************************************************************)
Success == "NetConnection.Connect.Success"
Rejected == "NetConnection.Connect.Rejected"

Handshake(connect, send, recv, body, status, code, hb_send) ==
    [connect |-> connect, send |-> send, recv |-> recv, body |-> body,
     status |-> status, code |-> code, hb_send |-> hb_send]

Handshakes ==
    { Handshake("fail", "ok", "text", Object, Object, Success, "ok"),
      Handshake("ok", "fail", "text", Object, Object, Success, "ok"),
      Handshake("ok", "ok", "none", Object, Object, Success, "ok"),
      Handshake("ok", "ok", "error", Object, Object, Success, "ok"),
      Handshake("ok", "ok", "binary", Object, Object, Success, "ok"),
      Handshake("ok", "ok", "text", "<unparsable>", Absent, Absent, "ok"),
      Handshake("ok", "ok", "text", NonObject, Absent, Absent, "ok"),
      Handshake("ok", "ok", "text", Object, Absent, Absent, "ok"),
      Handshake("ok", "ok", "text", Object, NonObject, Absent, "ok"),
      Handshake("ok", "ok", "text", Object, Object, Absent, "ok"),
      Handshake("ok", "ok", "text", Object, Object, NonString, "ok"),
      Handshake("ok", "ok", "text", Object, Object, Rejected, "ok"),
      Handshake("ok", "ok", "text", Object, Object, Success, "fail"),
      Handshake("ok", "ok", "text", Object, Object, Success, "ok") }

\* the result of AcSocket::new and whether the startHeartbeat message was
\* handed to the socket
AcSocket_new(h) ==
    IF h.connect # "ok" THEN [res |-> Err("connect"), heartbeat |-> FALSE]
    ELSE IF h.send # "ok" THEN [res |-> Err("send"), heartbeat |-> FALSE]
    ELSE IF h.recv # "text" THEN [res |-> Panic, heartbeat |-> FALSE]
    ELSE IF h.body = "<unparsable>" THEN [res |-> Err("json"), heartbeat |-> FALSE]
    ELSE IF h.body # Object THEN [res |-> Panic, heartbeat |-> FALSE]
    ELSE IF h.status # Object \/ h.code # Success
        THEN [res |-> Err("UnsuccessfulWs"), heartbeat |-> FALSE]
    ELSE IF h.hb_send # "ok" THEN [res |-> Err("send"), heartbeat |-> TRUE]
    ELSE [res |-> Ok("AcSocket"), heartbeat |-> TRUE]

\* what monitor tells apart in the result of AcSocket::new, with whether
\* the startHeartbeat message went out
NewOutcomes ==
    { [tag |-> AcSocket_new(h).res.tag, heartbeat |-> AcSocket_new(h).heartbeat] :
        h \in Handshakes }

(***************************************************************************)
(* AcSocket::listen (ac_coms.rs).  A frame is what inner.next() yields.    *)
(***************************************************************************)
Frame(kind, msg) == [kind |-> kind, msg |-> msg]

NoMsg == Msg("", Absent, Absent, Absent, Absent, Absent)

Frames ==
    { Frame("none", NoMsg), Frame("error", NoMsg), Frame("binary", NoMsg) }
    \cup { Frame("text", m) : m \in Messages }

Step(status, entry, out, ev, arg) ==
    [status |-> status, entry |-> entry, out |-> out, ev |-> ev, arg |-> arg]

\* One pass through the body of the loop of listen, for the frame f, with
\* the local variable status and the shared entry, at time t.  out tells how
\* the pass ends: the loop goes on, listen returns true or false, or panics.
listen_body(status, entry, f, t) ==
    IF f.kind = "none" THEN Step(status, entry, "false", "closed", "none")
    ELSE IF f.kind = "error" THEN Step(status, entry, "false", "error", "none")
    ELSE IF f.kind # "text" THEN Step(status, entry, "panic", "panic", "into_text")
    ELSE LET r == Rpc_new(f.msg) IN
        IF r.tag = "panic" THEN Step(status, entry, "panic", "panic", "as_str")
        ELSE IF r.tag = "err" THEN Step(status, entry, "continue", "reject", "none")
        ELSE IF is_heartbeat(r.val)
            THEN Step(status, entry, "continue", "heartbeat", r.val)
        ELSE IF is_timeout(r.val)
            THEN Step(status, entry, "false", "timeout", r.val)
        ELSE LET new == update(r.val, status) IN
            Step(new, set_status(entry, new, t),
                 IF new \in {"Closed", "Pending"} THEN "continue" ELSE "true",
                 "update", r.val)

(***************************************************************************)
(* monitor (main.rs): where the task of a room goes after listen returned. *)
(***************************************************************************)
\* the task closes and sleeps whatever listen returned
after_listen_always_sleeps(ret) == "close"

after_listen(ret) == IF ret THEN "close" ELSE "scrape"

\* the live sockets of a room once web_socket goes out of scope (the end of
\* an iteration of the loop, or the unwinding of a panic)
out_of_scope_kept(n) == n

out_of_scope(n) == n - 1

\* the task tries AcSocket::new again with the parameters it has
after_new_error_retries == "new"

\* where the task of a room goes when AcSocket::new did not return a socket
after_new_error == "done"

\* where the task of a room goes when a later from_canvas_slug failed
after_scrape_error == "retry_sleep"

(***************************************************************************)
(* State.                                                                  *)
(***************************************************************************)
VARIABLES
    mainpc,        \* where main's monitor() is
    idx,           \* the entry monitor() is scraping for, or the task it awaits
    pc,            \* pc[r]: where the task of room r is
    entry,         \* entry[r]: the DbEntry of room r
    local,         \* local[r]: the local variable status of listen
    sock,          \* sock[r]: the web socket of room r
    atOpen,        \* atOpen[r]: entry[r] as it was when listen was entered
    wrote,         \* wrote[r]: set_status was called since listen was entered
    now,           \* the wall clock
    last,          \* what the latest step did, when it was a step of listen
    rdpc,          \* where the reader (the API) is in DbEntry::json
    rdRoom,        \* the room the reader reads
    rdResult,      \* the object the reader built last
    stamp,         \* stamp[r]: the time of the latest call of set_status
    tr,            \* the latest application of Rpc::update by itself
    live,          \* live[r]: the AcSocket values of room r not yet dropped
    room_params,   \* room_params[r]: the parameters of the task: none, fresh or used
    call           \* the latest application of Rpc::new or AcSocket::new by itself

vars == <<mainpc, idx, pc, entry, local, sock, atOpen, wrote,
          now, last, rdpc, rdRoom, rdResult, stamp, tr, live, room_params, call>>

NoEvent == [room |-> 0, ev |-> "none", arg |-> "none", out |-> "none"]
NoResult == [status |-> "none", last_changed |-> 0]
NoApplication == [fn |-> "none", arg |-> "none", res |-> "none"]
NoCall == [prev |-> "Pending", rpc |-> "none", cur |-> "Pending", calls |-> 0]

\* the process runs until main panics
Alive == mainpc \notin {"panic_unwrap", "panic_expect"}

Init ==
    /\ mainpc = "scrape"
    /\ idx = 1
    /\ pc = [r \in Rooms |-> "unstarted"]
    /\ entry = [r \in Rooms |-> DbEntry_from(0)]
    /\ local = [r \in Rooms |-> "Pending"]
    /\ sock = [r \in Rooms |-> "none"]
    /\ atOpen = [r \in Rooms |-> DbEntry_from(0)]
    /\ wrote = [r \in Rooms |-> FALSE]
    /\ now = 0
    /\ last = NoEvent
    /\ rdpc = "idle"
    /\ rdRoom = 1
    /\ rdResult = NoResult
    /\ stamp = [r \in Rooms |-> 0]
    /\ tr = NoCall
    /\ live = [r \in Rooms |-> 0]
    /\ room_params = [r \in Rooms |-> "none"]
    /\ call = NoApplication

(***************************************************************************)
(* monitor (main.rs), the part that runs in main's own task.               *)
(***************************************************************************)
\* line 106: the first from_canvas_slug of a room is awaited and unwrapped
\* before the task of the room is spawned and before the next room is looked at
MonitorScrape(res) ==
    /\ mainpc = "scrape"
    /\ IF res = "ok"
        THEN /\ pc' = [pc EXCEPT ![idx] = "new"]
             /\ room_params' = [room_params EXCEPT ![idx] = "fresh"]
             /\ IF idx < NumRooms
                THEN mainpc' = "scrape" /\ idx' = idx + 1
                ELSE mainpc' = "join" /\ idx' = 1
        ELSE /\ mainpc' = "panic_unwrap"
             /\ UNCHANGED <<pc, idx, room_params>>
    /\ last' = NoEvent
    /\ UNCHANGED <<call, live, stamp, tr, entry, local, sock, atOpen, wrote, now, rdpc, rdRoom, rdResult>>

\* lines 143-147: the tasks are awaited in the order they were spawned; a
\* task that panicked makes monitor return the JoinError, which main expects
MonitorJoin ==
    /\ mainpc = "join"
    /\ pc[idx] \in {"done", "panicked"}
    /\ IF pc[idx] = "panicked"
       THEN mainpc' = "panic_expect" /\ idx' = idx
       ELSE IF idx < NumRooms
            THEN mainpc' = "join" /\ idx' = idx + 1
            ELSE mainpc' = "returned" /\ idx' = idx
    /\ last' = NoEvent
    /\ UNCHANGED <<call, live, room_params, stamp, tr, pc, entry, local, sock, atOpen, wrote, now, rdpc, rdRoom, rdResult>>

(***************************************************************************)
(* monitor (main.rs), the task spawned for room r.                         *)
(***************************************************************************)
\* line 110: AcSocket::new with the handshake h; with a socket, line 118
\* enters listen, whose local status starts as Pending
New(r, n) ==
    /\ Alive
    /\ pc[r] = "new"
    /\ IF n.tag = "ok"
        THEN /\ pc' = [pc EXCEPT ![r] = "listen"]
             /\ sock' = [sock EXCEPT ![r] = "open"]
             /\ live' = [live EXCEPT ![r] = live[r] + 1]
        ELSE /\ pc' = [pc EXCEPT ![r] =
                        IF n.tag = "panic" THEN "panicked" ELSE after_new_error]
             /\ sock' = [sock EXCEPT ![r] = "none"]
             /\ UNCHANGED live
    /\ room_params' = [room_params EXCEPT ![r] = "used"]
    /\ local' = [local EXCEPT ![r] = "Pending"]
    /\ atOpen' = [atOpen EXCEPT ![r] = entry[r]]
    /\ wrote' = [wrote EXCEPT ![r] = FALSE]
    /\ last' = NoEvent
    /\ UNCHANGED <<call, stamp, tr, mainpc, idx, entry, now, rdpc, rdRoom, rdResult>>

\* the passes through the body of the loop that the frames can make in room r
ListenSteps(r) == { listen_body(local[r], entry[r], f, now) : f \in Frames }

\* line 118: one frame in the loop of listen; set_status waits for the write
\* lock of the status while a reader holds it.  When listen is left, its
\* local is gone (and atOpen, wrote follow the entry again).
Listen(r, b) ==
    /\ Alive
    /\ pc[r] = "listen"
    /\ (b.ev = "update") => ~(rdpc # "idle" /\ rdRoom = r)
    /\ entry' = [entry EXCEPT ![r] = b.entry]
    /\ last' = [room |-> r, ev |-> b.ev, arg |-> b.arg, out |-> b.out]
    /\ stamp' = IF b.ev = "update" THEN [stamp EXCEPT ![r] = now] ELSE stamp
    /\ IF b.out = "continue"
       THEN /\ local' = [local EXCEPT ![r] = b.status]
            /\ wrote' = [wrote EXCEPT ![r] = wrote[r] \/ b.ev = "update"]
            /\ UNCHANGED <<pc, sock, atOpen, live>>
       ELSE /\ local' = [local EXCEPT ![r] = "Pending"]
            /\ wrote' = [wrote EXCEPT ![r] = FALSE]
            /\ atOpen' = [atOpen EXCEPT ![r] = b.entry]
            /\ pc' = [pc EXCEPT ![r] =
                        CASE b.out = "panic" -> "panicked"
                          [] b.out = "true" -> after_listen(TRUE)
                          [] b.out = "false" -> after_listen(FALSE)]
            /\ live' = [live EXCEPT ![r] =
                        IF b.out = "panic" THEN out_of_scope(live[r]) ELSE live[r]]
            /\ sock' = [sock EXCEPT ![r] =
                        CASE b.out = "panic" -> "none"
                          [] b.ev \in {"closed", "error"} -> "closed"
                          [] OTHER -> "open"]
    /\ UNCHANGED <<call, room_params, tr, mainpc, idx, now, rdpc, rdRoom, rdResult>>

\* line 120: AcSocket::close; an error of the close is logged and dropped
Close(r) ==
    /\ Alive
    /\ pc[r] = "close"
    /\ pc' = [pc EXCEPT ![r] = "sleep"]
    /\ sock' = [sock EXCEPT ![r] = "closed"]
    /\ last' = NoEvent
    /\ UNCHANGED <<call, live, room_params, stamp, tr, mainpc, idx, entry, local, atOpen, wrote, now,
                   rdpc, rdRoom, rdResult>>

\* line 121: the sleep of 15 minutes is over
Sleep(r) ==
    /\ Alive
    /\ pc[r] = "sleep"
    /\ pc' = [pc EXCEPT ![r] = "scrape"]
    /\ last' = NoEvent
    /\ UNCHANGED <<call, live, room_params, stamp, tr, mainpc, idx, entry, local, sock, atOpen, wrote,
                   now, rdpc, rdRoom, rdResult>>

\* lines 126-138: from_canvas_slug in the inner loop; with new parameters the
\* iteration of the outer loop ends, which drops the socket
Scrape(r, res) ==
    /\ Alive
    /\ pc[r] = "scrape"
    /\ IF res = "ok"
       THEN /\ pc' = [pc EXCEPT ![r] = "new"]
            /\ sock' = [sock EXCEPT ![r] = "none"]
            /\ live' = [live EXCEPT ![r] = out_of_scope(live[r])]
            /\ room_params' = [room_params EXCEPT ![r] = "fresh"]
       ELSE /\ pc' = [pc EXCEPT ![r] = after_scrape_error]
            /\ UNCHANGED <<sock, live, room_params>>
    /\ last' = NoEvent
    /\ UNCHANGED <<call, stamp, tr, mainpc, idx, entry, local, atOpen, wrote, now,
                   rdpc, rdRoom, rdResult>>

\* line 135: the sleep of 10 seconds is over
RetrySleep(r) ==
    /\ Alive
    /\ pc[r] = "retry_sleep"
    /\ pc' = [pc EXCEPT ![r] = "scrape"]
    /\ last' = NoEvent
    /\ UNCHANGED <<call, live, room_params, stamp, tr, mainpc, idx, entry, local, sock, atOpen, wrote,
                   now, rdpc, rdRoom, rdResult>>

(***************************************************************************)
(* The reader: read and all (main.rs) call DbEntry::json (lib.rs).         *)
(***************************************************************************)
\* lib.rs line 73: the read lock of the status is taken
ReadStatus(r) ==
    /\ Alive
    /\ rdpc = "idle"
    /\ rdpc' = "status_locked"
    /\ rdRoom' = r
    /\ rdResult' = NoResult
    /\ last' = NoEvent
    /\ UNCHANGED <<call, live, room_params, stamp, tr, mainpc, idx, pc, entry, local, sock, atOpen, wrote, now>>

\* lib.rs lines 74-83: the read lock of the time is taken, the object is
\* built and both locks are released
ReadTime ==
    /\ Alive
    /\ rdpc = "status_locked"
    /\ rdpc' = "idle"
    /\ rdResult' = DbEntry_json(entry[rdRoom])
    /\ last' = NoEvent
    /\ UNCHANGED <<call, live, room_params, stamp, tr, mainpc, idx, pc, entry, local, sock, atOpen, wrote, now, rdRoom>>

\* the wall clock advances
Tick ==
    /\ Alive
    /\ now < MaxTime
    /\ now' = now + 1
    /\ last' = NoEvent
    /\ UNCHANGED <<call, live, room_params, stamp, tr, mainpc, idx, pc, entry, local, sock, atOpen, wrote,
                   rdpc, rdRoom, rdResult>>

\* the steps of the task of room r
RoomNext(r) ==
    \/ \E n \in NewOutcomes : New(r, n)
    \/ \E b \in ListenSteps(r) : Listen(r, b)
    \/ Close(r)
    \/ Sleep(r)
    \/ \E res \in ScrapeOutcomes : Scrape(r, res)
    \/ RetrySleep(r)

(***************************************************************************)
(* Spec: the monitor and the tasks of the rooms.                           *)
(***************************************************************************)
Next ==
    \/ \E res \in ScrapeOutcomes : MonitorScrape(res)
    \/ MonitorJoin
    \/ \E r \in Rooms : RoomNext(r)

Spec == Init /\ [][Next]_vars

(***************************************************************************)
(* SpecApi: the wall clock, a reader of the API and the task of the room   *)
(* whose entry is read.  The tasks of the other rooms are spawned and left *)
(* aside: their steps touch neither this entry nor its locks.              *)
(***************************************************************************)
NextApi ==
    \/ \E res \in ScrapeOutcomes : MonitorScrape(res)
    \/ MonitorJoin
    \/ RoomNext(rdRoom)
    \/ ReadStatus(rdRoom)
    \/ ReadTime
    \/ Tick

SpecApi == Init /\ [][NextApi]_vars

(***************************************************************************)
(* SpecUpdate: Rpc::update by itself, applied to any status and any        *)
(* string, one application after the other.                                *)
(***************************************************************************)
\* the applications of update in one behaviour
MaxCalls == 4

Commands == (Signals \ {"connectionTimedOut"}) \cup {"", "closed", "Accepted"}

ApplyUpdate(s, c) ==
    /\ tr.calls < MaxCalls
    /\ tr' = [prev |-> s, rpc |-> c, cur |-> update(c, s), calls |-> tr.calls + 1]
    /\ UNCHANGED <<mainpc, idx, pc, entry, local, sock, atOpen, wrote, now, last,
                   rdpc, rdRoom, rdResult, stamp, live, room_params, call>>

NextUpdate == \E s \in Status, c \in Commands : ApplyUpdate(s, c)

SpecUpdate == Init /\ [][NextUpdate]_vars

(***************************************************************************)
(* SpecCalls: Rpc::new and AcSocket::new by themselves, applied once to    *)
(* any message and to any handshake.                                       *)
(***************************************************************************)
\* every message that the field lookups of Rpc::new can tell apart
AllMessages ==
    { Msg("", Absent, Absent, Absent, Absent, Absent),
      Msg("<unparsable>", Absent, Absent, Absent, Absent, Absent),
      Msg(NonObject, Absent, Absent, Absent, Absent, Absent) }
    \cup { Msg(Object, method, command, params, Absent, Absent) :
              method \in {Absent, NonString, "heartbeat", "onCommand", "other"},
              command \in {Absent, "loginHandler", "other"},
              params \in {Absent, NonObject} }
    \cup { Msg(Object, method, command, Object, arg_0, Absent) :
              method \in {Absent, NonString, "heartbeat", "onCommand", "other"},
              command \in {Absent, "loginHandler", "other"},
              arg_0 \in {Absent, NonObject} }
    \cup { Msg(Object, method, command, Object, Object, name) :
              method \in {Absent, NonString, "heartbeat", "onCommand", "other"},
              command \in {Absent, "loginHandler", "other"},
              name \in {Absent, NonString} \cup Signals }

ApplyRpcNew(m) ==
    /\ call.fn = "none"
    /\ call' = [fn |-> "Rpc::new", arg |-> m, res |-> Rpc_new(m)]
    /\ UNCHANGED <<mainpc, idx, pc, entry, local, sock, atOpen, wrote, now, last,
                   rdpc, rdRoom, rdResult, stamp, tr, live, room_params>>

ApplyAcSocketNew(h) ==
    /\ call.fn = "none"
    /\ call' = [fn |-> "AcSocket::new", arg |-> h, res |-> AcSocket_new(h)]
    /\ UNCHANGED <<mainpc, idx, pc, entry, local, sock, atOpen, wrote, now, last,
                   rdpc, rdRoom, rdResult, stamp, tr, live, room_params>>

NextCalls ==
    \/ \E m \in AllMessages : ApplyRpcNew(m)
    \/ \E h \in Handshakes : ApplyAcSocketNew(h)

SpecCalls == Init /\ [][NextCalls]_vars

(***************************************************************************)
(* The transition table of the design (section 4.3), for the commands      *)
(* other than "connectionTimedOut".                                         *)
(***************************************************************************)
Transition(current, command) ==
    IF current = "Open" THEN "Open"
    ELSE IF current = "Blocked" THEN "Blocked"
    ELSE IF command = "accepted" THEN "Open"
    ELSE IF command = "blocked" THEN "Blocked"
    ELSE "Closed"

\* the latest step handled, in the listen loop of room r, a command that
\* listen hands to update
Updated(r) == last'.room = r /\ last'.ev = "update"

Generic(command) == command \notin {"accepted", "blocked", "connectionTimedOut"}

(***************************************************************************)
(* C1: once the status of a room's entry is Open or Blocked, a             *)
(* loginHandler command with a generic signal never changes it, in the     *)
(* same session or in a later one.                                         *)
(***************************************************************************)
C1_GenericSignalKeepsOpenAndBlocked ==
    [][\A r \in Rooms :
        (entry[r].status \in {"Open", "Blocked"} /\ Updated(r) /\ Generic(last'.arg))
            => entry'[r].status = entry[r].status]_vars

(***************************************************************************)
(* C2: every write of the status of an entry caused by a command c stores  *)
(* Transition(old, c), where old is the status of the entry right before   *)
(* the write.                                                              *)
(***************************************************************************)
C2_WriteFollowsTableFromEntry ==
    [][\A r \in Rooms :
        Updated(r) => entry'[r].status = Transition(entry[r].status, last'.arg)]_vars

(***************************************************************************)
(* C3: a command other than "connectionTimedOut" writes the status and     *)
(* the time of the entry in one step: the status becomes the result of the *)
(* transition and last_changed becomes the time of the write.              *)
(***************************************************************************)
C3_StatusAndTimeWrittenTogether ==
    [][\A r \in Rooms :
        Updated(r) =>
            /\ entry'[r].status = update(last'.arg, local[r])
            /\ entry'[r].last_changed = now]_vars

(***************************************************************************)
(* C4: the task of a room never terminates; when AcSocket::new fails, the  *)
(* task goes back to the acquisition of the parameters.                    *)
(***************************************************************************)
C4_SupervisorNeverTerminates ==
    \A r \in Rooms : pc[r] \notin {"done", "panicked"}

(***************************************************************************)
(* C5: every failure of from_canvas_slug, the first one of a room          *)
(* included, is followed by a wait and another attempt.                    *)
(***************************************************************************)
C5_ScrapeFailureIsRetried ==
    [][/\ (mainpc = "scrape" => mainpc' \in {"scrape", "join"})
       /\ \A r \in Rooms :
            (pc[r] = "scrape" => pc'[r] \in {"scrape", "retry_sleep", "new"})]_vars

(***************************************************************************)
(* C6: no failure in the task of room a keeps the task of another room b   *)
(* from starting or from running, and none ends the process (and with it   *)
(* the API).                                                               *)
(***************************************************************************)
C6_FailuresStayInTheirRoom ==
    /\ Alive
    /\ \A b \in Rooms : pc[b] = "unstarted" => (mainpc = "scrape" /\ idx <= b)

(***************************************************************************)
(* C7: DbEntry::json returns the status of the latest update together with *)
(* the time of that same update (or the pair of the creation), never the   *)
(* status of one write with the time of another.                           *)
(***************************************************************************)
C7_ReadPairIsOfOneWrite ==
    [][(rdpc = "status_locked" /\ rdpc' = "idle") =>
        rdResult' = [status |-> Status_json(entry[rdRoom].status),
                     last_changed |-> stamp[rdRoom]]]_vars

(***************************************************************************)
(* C8: a text message that Rpc::new does not turn into an Rpc is dropped:  *)
(* the loop of listen goes on in the same session and the entry is left    *)
(* as it was.                                                              *)
(***************************************************************************)
C8_RejectedMessageIsDropped ==
    [][\A r \in Rooms :
        (/\ last'.room = r
         /\ \/ last'.ev = "reject"
            \/ last'.ev = "panic" /\ last'.arg = "as_str")
        => (pc'[r] = "listen" /\ entry'[r] = entry[r] /\ sock'[r] = "open")]_vars

(***************************************************************************)
(* C9: update agrees with the table for every status and every command    *)
(* other than "connectionTimedOut".                                        *)
(***************************************************************************)
C9_UpdateAgreesWithTable ==
    tr.calls > 0 => tr.cur = Transition(tr.prev, tr.rpc)

\* update was applied to a Blocked status with the command "accepted"
C9_Witness ==
    tr.calls > 0 /\ tr.prev = "Blocked" /\ tr.rpc = "accepted" /\ tr.cur = "Blocked"

(***************************************************************************)
(* C10: the task sleeps its 15 minutes if and only if listen returned      *)
(* true, after the socket was closed, and then acquires parameters; when   *)
(* listen returned false the task acquires parameters next, without sleep, *)
(* and the status of the entry is what it was when listen was entered if   *)
(* no command was handed to update.                                        *)
(***************************************************************************)
C10_SleepIffListenSucceeded ==
    [][\A r \in Rooms :
        /\ (pc'[r] = "close" /\ pc[r] # "close")
                => (last'.room = r /\ last'.out = "true")
        /\ (last'.room = r /\ last'.out = "true") => pc'[r] = "close"
        /\ (pc'[r] = "sleep" /\ pc[r] # "sleep")
                => (pc[r] = "close" /\ sock'[r] = "closed")
        /\ (pc[r] = "close" /\ pc'[r] # "close") => pc'[r] = "sleep"
        /\ (pc[r] = "sleep" /\ pc'[r] # "sleep") => pc'[r] = "scrape"
        /\ (last'.room = r /\ last'.out = "false")
                => /\ pc'[r] = "scrape"
                   /\ ~wrote[r] => entry'[r].status = atOpen[r].status]_vars

\* one room sleeps after its listen returned true while listen of another
\* room has just returned false with the entry still Pending
C10_Witness ==
    /\ last.out = "false"
    /\ pc[last.room] = "scrape"
    /\ entry[last.room].status = "Pending"
    /\ \E r \in Rooms : pc[r] = "sleep" /\ sock[r] = "closed"


(***************************************************************************)
(* C11: each room has at most one session at a time: AcSocket::new is      *)
(* called only when the socket of the previous session has been dropped,   *)
(* after listen returned true as after it returned false.                  *)
(***************************************************************************)
C11_AtMostOneSession ==
    \A r \in Rooms :
        /\ live[r] <= 1
        /\ pc[r] = "new" => live[r] = 0
        /\ sock[r] # "none" => live[r] = 1

\* one room listens again after its entry became Open, another listens again
\* after a session that wrote Closed and failed
C11_Witness ==
    \E r1, r2 \in Rooms :
        /\ pc[r1] = "listen" /\ live[r1] = 1 /\ entry[r1].status = "Open"
        /\ pc[r2] = "listen" /\ live[r2] = 1 /\ entry[r2].status = "Closed"
        /\ ~wrote[r2]

(***************************************************************************)
(* The envelopes of the design (section 4.2): what the interpreter is to   *)
(* make of a message, and the envelope that a result of Rpc::new stands    *)
(* for in listen.                                                          *)
(***************************************************************************)
Heartbeat == [kind |-> "Heartbeat", val |-> "none"]
Command(c) == [kind |-> "Command", val |-> c]
Failure(e) == [kind |-> "Error", val |-> e]

Envelope(res) ==
    IF res.tag = "ok"
    THEN IF is_heartbeat(res.val) THEN Heartbeat ELSE Command(res.val)
    ELSE IF res.tag = "err"
    THEN Failure(CASE res.val = "Empty" -> "EmptyMessage"
                   [] res.val = "InvalidJson" -> "InvalidPayload"
                   [] OTHER -> res.val)
    ELSE [kind |-> "Panic", val |-> "none"]

\* the envelope e is what the design asks for the message m
Interpreted(m, e) ==
    IF m.text = "" THEN e = Failure("EmptyMessage")
    ELSE IF m.text # Object THEN e = Failure("InvalidPayload")
    ELSE IF m.method = "heartbeat" THEN e = Heartbeat
    ELSE IF m.method # "onCommand" THEN e = Failure("UnknownMethod")
    ELSE IF m.command # "loginHandler" THEN e = Failure("UnknownCommand")
    ELSE IF m.params # Object \/ m.arg_0 # Object THEN e.kind = "Error"
    ELSE IF m.name = Absent THEN e = Failure("MissingName")
    ELSE IF m.name = NonString THEN e.kind = "Error"
    ELSE e = Command(m.name)

(***************************************************************************)
(* C12: the interpreter classifies every message as the design states:     *)
(* the empty message, the invalid payload, the unknown method, Heartbeat   *)
(* for the method "heartbeat", the unknown command, params and arg_0 that  *)
(* must be objects, the missing name, and otherwise Command(s) with s the  *)
(* string at params.arg_0.command.                                         *)
(***************************************************************************)
C12_InterpreterFollowsAlgorithm ==
    call.fn = "Rpc::new" => Interpreted(call.arg, Envelope(call.res))

(***************************************************************************)
(* C13: listen returns true as soon as the status of the entry is Open or  *)
(* Blocked; entered with such an entry, it returns without waiting for a   *)
(* frame.                                                                  *)
(***************************************************************************)
C13_NoFrameAwaitedOnceSettled ==
    \A r \in Rooms : pc[r] = "listen" => entry[r].status \notin {"Open", "Blocked"}

(***************************************************************************)
(* C14: a command "connectionTimedOut" writes nothing to the entry and     *)
(* makes listen return false, as a closed transport does; update is never  *)
(* applied to it.                                                          *)
(***************************************************************************)
TimeoutFrame == Frame("text", LoginHandler("connectionTimedOut"))

C14_TimeoutEndsListenWithoutWrite ==
    [][\A r \in Rooms :
        /\ pc[r] = "listen" =>
            LET b == listen_body(local[r], entry[r], TimeoutFrame, now) IN
                b.ev = "timeout" /\ b.out = "false" /\ b.entry = entry[r]
        /\ (last'.room = r /\ last'.ev \in {"timeout", "closed"})
                => /\ last'.out = "false"
                   /\ entry'[r] = entry[r]
                   /\ pc'[r] = after_listen(FALSE)
        /\ Updated(r) => last'.arg # "connectionTimedOut"]_vars

\* a timeout has just ended a session that had written Closed
C14_Witness ==
    /\ last.ev = "timeout"
    /\ pc[last.room] = "scrape"
    /\ entry[last.room].status = "Closed"

(***************************************************************************)
(* C15: for any response to the handshake, AcSocket::new either sends the  *)
(* startHeartbeat message and returns the socket (status.code is the       *)
(* success code) or returns the unsuccessful-handshake error without       *)
(* sending startHeartbeat (every other response).                          *)
(***************************************************************************)
C15_HandshakeHasTwoOutcomes ==
    (/\ call.fn = "AcSocket::new"
     /\ call.arg.connect = "ok" /\ call.arg.send = "ok"
     /\ call.arg.recv = "text" /\ call.arg.hb_send = "ok")
    => IF call.arg.body = Object /\ call.arg.status = Object
          /\ call.arg.code = Success
       THEN call.res.res.tag = "ok" /\ call.res.heartbeat
       ELSE call.res.res = Err("UnsuccessfulWs") /\ ~call.res.heartbeat

(***************************************************************************)
(* C16: every AcSocket::new of a room uses parameters acquired since the   *)
(* previous one: between two of them from_canvas_slug has succeeded, and   *)
(* no parameters are used twice.                                           *)
(***************************************************************************)
C16_FreshParamsForEveryOpen ==
    [][\A r \in Rooms :
        /\ pc[r] = "new" => room_params[r] = "fresh"
        /\ (pc[r] = "new" /\ pc'[r] # "new") => room_params'[r] = "used"
        /\ (room_params[r] = "used" /\ room_params'[r] = "fresh")
                => pc[r] = "scrape"]_vars

\* a room is in a later session, opened with parameters now used
C16_Witness ==
    \E r \in Rooms :
        pc[r] = "listen" /\ entry[r].status = "Blocked" /\ room_params[r] = "used"

(***************************************************************************)
(* C17: a heartbeat leaves the entry as it is and listen goes on; a        *)
(* session in which no command was handed to update leaves the entry, when *)
(* the transport closes, as it was when the session was opened.            *)
(***************************************************************************)
HeartbeatFrame ==
    Frame("text", Msg(Object, "heartbeat", Absent, Absent, Absent, Absent))

C17_HeartbeatChangesNothing ==
    [][\A r \in Rooms :
        /\ pc[r] = "listen" =>
            LET b == listen_body(local[r], entry[r], HeartbeatFrame, now) IN
                /\ b.ev = "heartbeat" /\ b.out = "continue"
                /\ b.entry = entry[r] /\ b.status = local[r]
        /\ (last'.room = r /\ last'.ev = "heartbeat")
                => /\ entry'[r] = entry[r]
                   /\ pc'[r] = "listen" /\ sock'[r] = "open"
                   /\ local'[r] = local[r]
        /\ (pc[r] = "listen" /\ ~wrote[r]) => entry[r] = atOpen[r]
        /\ (last'.room = r /\ last'.ev = "closed" /\ ~wrote[r])
                => entry'[r] = atOpen[r]]_vars

\* a heartbeat has just been received in a session that goes on
C17_Witness ==
    /\ last.ev = "heartbeat"
    /\ pc[last.room] = "listen"
    /\ entry[last.room] = atOpen[last.room]

(***************************************************************************)
(* C18: a loginHandler command whose signal is the string "heartbeat" is   *)
(* a command like any other: listen hands it to update and, from Pending   *)
(* or Closed, writes Closed to the entry.                                  *)
(***************************************************************************)
C18_HeartbeatSignalIsACommand ==
    \A r \in Rooms :
        pc[r] = "listen" =>
            LET b == listen_body(local[r], entry[r],
                                 Frame("text", LoginHandler("heartbeat")), now) IN
                b.ev = "update" /\ b.entry.status = "Closed"

(***************************************************************************)
(* C19: Pending is only the first value of the status of an entry: no      *)
(* write stores Pending, and an entry that left Pending never has it       *)
(* again.                                                                  *)
(***************************************************************************)
C19_PendingOnlyInitially ==
    [][\A r \in Rooms :
        /\ Updated(r) => entry'[r].status # "Pending"
        /\ entry[r].status # "Pending" => entry'[r].status # "Pending"]_vars

\* a room listens in a new session, whose local status is Pending again,
\* with the Closed that an earlier session wrote
C19_Witness ==
    \E r \in Rooms :
        pc[r] = "listen" /\ local[r] = "Pending" /\ entry[r].status = "Closed"

(***************************************************************************)
(* C20: while the task of a room sleeps its 15 minutes, the status of the  *)
(* entry of the room is Open or Blocked.                                   *)
(***************************************************************************)
C20_SleepOnlyWhenSettled ==
    \A r \in Rooms :
        pc[r] \in {"close", "sleep"} => entry[r].status \in {"Open", "Blocked"}

\* the task sleeps with a Blocked entry
C20_Witness ==
    \E r \in Rooms : pc[r] = "sleep" /\ entry[r].status = "Blocked"

====
